---- MODULE Spec2Model ----
(***************************************************************************)
(* Token lifecycle of the admin backend: the Session Store (Redis) and the *)
(* handlers of backend/common/security/jwt.py and                          *)
(* backend/app/admin/service/auth.py.  A handler is a sequence of steps,   *)
(* one per cache/database call (one await); Exec runs one step and Run     *)
(* runs a handler to its end.  Under Spec requests are served one at a     *)
(* time, each handler being one action; under SpecSteps and SpecConc a     *)
(* request advances one step per action, so that its intermediate states   *)
(* and the interleavings the event loop allows are states of the model.    *)
(* SpecReplay (served whole) and SpecTwin (step by step) hand out more     *)
(* session ids, for scenarios of four and of three sessions.               *)
(* SpecAdmin and SpecListing add the handlers of                           *)
(* backend/app/admin/service/token.py (kick_out, get_token_list) and       *)
(* swagger_login; SpecAccounts starts from user tables with a disabled or  *)
(* password-less account; SpecExpiry lets the clock pass the end of a      *)
(* validity window; SpecKinds presents tokens of one kind in the place of  *)
(* the other.  SpecUsers, SpecMembers and SpecDeleteConc add               *)
(* UserService.delete of backend/app/admin/service/user.py and the         *)
(* disabling of an account: served whole under the first two, interleaved  *)
(* with a refresh under the third.                                         *)
(*                                                                         *)
(* The clock counts the seconds of timezone.now().  It advances between    *)
(* requests (cache calls time out after seconds, the validity windows are  *)
(* days), by one second or by a whole validity window, under SpecExpiry by *)
(* a validity window and a second.                                         *)
(***************************************************************************)
EXTENDS Integers, Sequences, FiniteSets, TLC

\* ------------------------------------------------------------- bounds
\* the times the clock advances, and the session ids uuid4 hands out
MaxTicks == 1
MaxSessions == 2

\* ----------------------------------------------------- configuration
TOKEN_EXPIRE_SECONDS == 604800
TOKEN_REFRESH_EXPIRE_SECONDS == 691200
JWT_USER_REDIS_EXPIRE_SECONDS == 604800
TOKEN_REDIS_PREFIX == "fs:token"
TOKEN_REFRESH_REDIS_PREFIX == "fs:refresh_token"
TOKEN_EXTRA_INFO_REDIS_PREFIX == "fs:token_extra_info"
JWT_USER_REDIS_PREFIX == "fs:user"

Users == {1, 10}
Slots == {1, 2}

\* the session_uuid claim a refresh token does not carry, and the
\* sentinel jwt_decode substitutes for it
NoSession == -1
Debug == 0

VARIABLES now, ticks, store, db, nextSid, req, issued, rotated, loggedOut

vars == <<now, ticks, store, db, nextSid, req, issued, rotated, loggedOut>>

\* ------------------------------------------------------- token codec
\* jwt.encode: a deterministic function of the claims
Encode(sub, session_uuid, exp) == <<sub, session_uuid, exp>>

\* a string that is no signed token (malformed or wrongly signed), and the
\* empty value of a missing cookie
Garbage == <<0>>
NoCookie == <<>>

\* jwt_decode at clock t: [err, id, session_uuid, expire_time]
jwt_decode(token, t) ==
    IF Len(token) # 3 \/ token[1] = 0
    THEN [err |-> "TokenInvalid", id |-> 0, session_uuid |-> Debug, expire_time |-> 0]
    ELSE IF token[3] < t
    THEN [err |-> "TokenExpired", id |-> 0, session_uuid |-> Debug, expire_time |-> 0]
    ELSE [err |-> "", id |-> token[1],
          session_uuid |-> IF token[2] = NoSession THEN Debug ELSE token[2],
          expire_time |-> token[3]]

\* ----------------------------------------------------- session store
RECURSIVE Digits(_)
\* str(user_id): the decimal digits of a positive id
Digits(n) == IF n < 10 THEN <<n>> ELSE Digits(n \div 10) \o <<n % 10>>

\* key "<ns>:<seg1>:<seg2>..."; a segment holds no ':'
Key(ns, segs) == [ns |-> ns, segs |-> segs]

AccessKey(user_id, session_uuid) ==
    Key(TOKEN_REDIS_PREFIX, <<Digits(user_id), <<session_uuid>>>>)
RefreshKey(user_id, refresh_token) ==
    Key(TOKEN_REFRESH_REDIS_PREFIX, <<Digits(user_id), refresh_token>>)
ExtraKey(session_uuid) ==
    Key(TOKEN_EXTRA_INFO_REDIS_PREFIX, <<<<session_uuid>>>>)
UserKey(user_id) ==
    Key(JWT_USER_REDIS_PREFIX, <<Digits(user_id)>>)

\* the pattern "<ns>:<str(user_id)>*" (colon = FALSE) or
\* "<ns>:<str(user_id)>:*" (colon = TRUE)
Prefix(ns, user_id, colon) == [ns |-> ns, digits |-> Digits(user_id), colon |-> colon]

\* does the key's string start with the prefix's string
MatchPrefix(prefix, key) ==
    /\ key.ns = prefix.ns
    /\ Len(key.segs) >= 1
    /\ LET d == prefix.digits
           s == key.segs[1]
       IN IF prefix.colon
          THEN s = d /\ Len(key.segs) >= 2
          ELSE Len(d) <= Len(s) /\ SubSeq(s, 1, Len(d)) = d

Keys(st) == {e.key : e \in st}

\* redis get: the value, or nil
Absent == <<>>
get(st, key) ==
    IF key \in Keys(st) THEN (CHOOSE e \in st : e.key = key).val ELSE Absent

setex(st, key, ttl, val, t) ==
    {e \in st : e.key # key} \cup {[key |-> key, val |-> val, exp |-> t + ttl]}

delete(st, keys) == {e \in st : e.key \notin keys}

\* delete_prefix, first half: the keys scan_iter yields
scan_iter(st, prefix) == {k \in Keys(st) : MatchPrefix(prefix, k)}

\* entries whose TTL has not run out at clock t
Live(st, t) == {e \in st : e.exp > t}

\* -------------------------------------------------------- requests
\* no key at all, and the value of a handler that has returned no list
NoKey == Key("", <<>>)
NoData == [none |-> TRUE, items |-> <<>>]

\* a request: its inputs (op, uid or tok/rtok, pwok), its position pc, its
\* locals, and its outcome (err, cookie)
Idle ==
    [op |-> "none", pc |-> "idle", uid |-> 0, multi |-> FALSE, pwok |-> FALSE,
     tok |-> NoCookie, rtok |-> NoCookie, oldsid |-> Debug,
     sid |-> 0, at |-> NoCookie, rt |-> NoCookie, keys |-> {},
     err |-> "", cookie |-> "keep",
     authed |-> FALSE, admin |-> FALSE, target |-> 0, tsid |-> 0,
     first |-> NoKey, filter |-> 0, data |-> NoData]

\* the request is over: its inputs and its outcome stay, its scratch state goes
Finished(r) == [r EXCEPT !.pc = "done", !.keys = {}]

\* a step's world: the request r, the store st, the session ids drawn n
World(r, st, n) == [r |-> r, st |-> st, n |-> n]

Raise(w, e) == [w EXCEPT !.r = Finished([w.r EXCEPT !.err = e])]

\* the session metadata create_access_token serialises next to the token
ExtraInfo(username, login_type) == <<username, login_type>>
NoLoginType == 0
\* auth.py 69: the login_type swagger_login writes
SwaggerLogin == 1
\* token.py 67: the login_type get_token_list leaves out
SwaggerMarker == 2
\* swagger_login passes no username
NoUsername == 0

\* ---------------------------------------------- create_access_token
\* jwt.py 57-76: expiry, a fresh uuid4 and the token, up to the first await
create_access_token(w) ==
    [w EXCEPT !.n = w.n + 1,
              !.r.sid = w.n + 1,
              !.r.at = Encode(w.r.uid, w.n + 1, now + TOKEN_EXPIRE_SECONDS),
              !.r.pc = IF w.r.multi = FALSE THEN "a_scan" ELSE "a_set"]

\* the prefix create_access_token evicts under the single-login policy
AccessEvictPrefix(user_id) == Prefix(TOKEN_REDIS_PREFIX, user_id, FALSE)

\* redis.py 48-58, delete_prefix: the scan; the delete is skipped when
\* nothing matched
create_access_scan(w) ==
    LET keys == scan_iter(w.st, AccessEvictPrefix(w.r.uid))
    IN [w EXCEPT !.r.keys = keys, !.r.pc = IF keys # {} THEN "a_del" ELSE "a_set"]

\* redis.py 59, delete_prefix: the bulk delete
create_access_delete(w) ==
    [w EXCEPT !.st = delete(w.st, w.r.keys), !.r.pc = "a_set"]

\* jwt.py 79-83
create_access_setex(w) ==
    [w EXCEPT !.st = setex(w.st, AccessKey(w.r.uid, w.r.sid),
                           TOKEN_EXPIRE_SECONDS, w.r.at, now),
              !.r.pc = "x_set"]

\* jwt.py 106-118 of create_refresh_token: expiry and token, up to the
\* first await
create_refresh_token(w) ==
    [w EXCEPT !.r.rt = Encode(w.r.uid, NoSession, now + TOKEN_REFRESH_EXPIRE_SECONDS),
              !.r.pc = IF w.r.multi = FALSE THEN "r_scan" ELSE "r_set"]

\* the extra-info entry written with another time to live
create_access_extra_ttl(w) ==
    IF w.r.op = "swagger"
    THEN [w EXCEPT !.st = setex(w.st, ExtraKey(w.r.sid), TOKEN_REFRESH_EXPIRE_SECONDS,
                                ExtraInfo(NoUsername, SwaggerLogin), now),
                   !.r = Finished(w.r)]
    ELSE create_refresh_token(
             [w EXCEPT !.st = setex(w.st, ExtraKey(w.r.sid), TOKEN_REFRESH_EXPIRE_SECONDS,
                                    ExtraInfo(w.r.uid, NoLoginType), now)])

\* jwt.py 86-94, and what the caller does next: swagger_login returns the
\* access token (auth.py 65-72), the others enter create_refresh_token
create_access_extra(w) ==
    IF w.r.op = "swagger"
    THEN [w EXCEPT !.st = setex(w.st, ExtraKey(w.r.sid), TOKEN_EXPIRE_SECONDS,
                                ExtraInfo(NoUsername, SwaggerLogin), now),
                   !.r = Finished(w.r)]
    ELSE create_refresh_token(
             [w EXCEPT !.st = setex(w.st, ExtraKey(w.r.sid), TOKEN_EXPIRE_SECONDS,
                                    ExtraInfo(w.r.uid, NoLoginType), now)])

\* --------------------------------------------- create_refresh_token
RefreshEvictPrefix(user_id) == Prefix(TOKEN_REFRESH_REDIS_PREFIX, user_id, FALSE)

create_refresh_scan(w) ==
    LET keys == scan_iter(w.st, RefreshEvictPrefix(w.r.uid))
    IN [w EXCEPT !.r.keys = keys, !.r.pc = IF keys # {} THEN "r_del" ELSE "r_set"]

create_refresh_delete(w) ==
    [w EXCEPT !.st = delete(w.st, w.r.keys), !.r.pc = "r_set"]

\* jwt.py 121-127; user_login then sets the cookie and returns (auth.py
\* 108-134), create_new_token goes on to delete the old pair
create_refresh_setex(w) ==
    LET st == setex(w.st, RefreshKey(w.r.uid, w.r.rt),
                    TOKEN_REFRESH_EXPIRE_SECONDS, w.r.rt, now)
    IN IF w.r.op = "login"
       THEN [w EXCEPT !.st = st, !.r = Finished([w.r EXCEPT !.cookie = "set"])]
       ELSE [w EXCEPT !.st = st, !.r.pc = "d_acc"]

\* ------------------------------------------- AuthService.user_login
\* auth.py 41-55 user_verify, 84-86, and the entry of create_access_token
user_verify(w) ==
    LET u == w.r.uid IN
    IF u \notin DOMAIN db \/ ~db[u].exists THEN Raise(w, "NotFound")
    ELSE IF ~db[u].status THEN Raise(w, "Forbidden")
    ELSE IF db[u].haspw /\ ~w.r.pwok THEN Raise(w, "Forbidden")
    ELSE create_access_token([w EXCEPT !.r.multi = db[u].multi])

\* ------------------------------------- AuthService.refresh_new_token
\* auth.py 138-145: the cookie and the refresh token's subject, before the
\* first await
refresh_new_token(r) ==
    LET d == jwt_decode(r.rtok, now)
    IN IF r.rtok = NoCookie THEN Finished([r EXCEPT !.err = "TokenExpired"])
       ELSE IF d.err # "" THEN Finished([r EXCEPT !.err = "TokenInvalid"])
       ELSE [r EXCEPT !.uid = d.id, !.pc = "rf_db"]

\* the refresh goes on without looking at the user record
refresh_trust_user(w) ==
    [w EXCEPT !.r.multi = db[w.r.uid].multi, !.r.pc = "rf_get"]

\* auth.py 147-151
refresh_get_user(w) ==
    LET u == w.r.uid IN
    IF u \notin DOMAIN db \/ ~db[u].exists THEN Raise(w, "NotFound")
    ELSE IF ~db[u].status THEN Raise(w, "Forbidden")
    ELSE [w EXCEPT !.r.multi = db[u].multi, !.r.pc = "rf_get"]

\* create_new_token without the look-up of the refresh-token key
create_new_token_unchecked(w) ==
    LET token_payload == jwt_decode(w.r.tok, now)
    IN IF token_payload.err # "" THEN Raise(w, token_payload.err)
       ELSE create_access_token([w EXCEPT !.r.oldsid = token_payload.session_uuid])

\* jwt.py 142-151 of create_new_token: the store check, the decode of the
\* old access token, and the entry of create_access_token
create_new_token(w) ==
    LET redis_refresh_token == get(w.st, RefreshKey(w.r.uid, w.r.rtok))
        token_payload == jwt_decode(w.r.tok, now)
    IN IF redis_refresh_token = Absent \/ redis_refresh_token # w.r.rtok
       THEN Raise(w, "TokenExpired")
       ELSE IF token_payload.err # "" THEN Raise(w, token_payload.err)
       ELSE create_access_token([w EXCEPT !.r.oldsid = token_payload.session_uuid])

\* jwt.py 155-160: the keys of the old pair, in the order they are deleted
OldKeys(r) == <<AccessKey(r.uid, r.oldsid), RefreshKey(r.uid, r.rtok)>>

\* jwt.py 161-162, first key
delete_old_access(w) ==
    [w EXCEPT !.st = delete(w.st, {OldKeys(w.r)[1]}), !.r.pc = "d_ref"]

\* jwt.py 161-170, second key, and auth.py 173-185
delete_old_refresh(w) ==
    [w EXCEPT !.st = delete(w.st, {OldKeys(w.r)[2]}),
              !.r = Finished([w.r EXCEPT !.cookie = "set"])]

\* ------------------------------------------------ jwt_authentication
\* the user record as cached under JWT_USER_REDIS_PREFIX
CacheUser(u) ==
    <<IF db[u].status THEN 1 ELSE 0, IF db[u].multi THEN 1 ELSE 0,
      IF db[u].admin THEN 1 ELSE 0>>

\* jwt.py 236-237: the decode, before the first await
jwt_authentication(r) ==
    LET d == jwt_decode(r.tok, now)
    IN IF d.err # "" THEN Finished([r EXCEPT !.err = d.err])
       ELSE [r EXCEPT !.uid = d.id, !.oldsid = d.session_uuid, !.pc = "au_get"]

\* auth.py 188-209 of logout up to its first await: the second decode,
\* the cookie, and the branch on the policy of request.user
logout(w) ==
    LET payload == jwt_decode(w.r.tok, now)
    IN IF payload.err # "" THEN Raise(w, payload.err)
       ELSE [w EXCEPT !.r.cookie = "cleared",
                      !.r.pc = IF w.r.multi THEN "lo_dacc" ELSE "lo_ascan"]

\* jwt.py 289-304 admin_verify, first, without the privilege check
kick_out_unchecked(w) == [w EXCEPT !.r.pc = "ko_dacc"]

\* token.py 75-77: admin_verify (jwt.py 289-304) on request.user, before
\* the first delete
kick_out(w) ==
    IF ~w.r.admin THEN Raise(w, "Unauthorized") ELSE [w EXCEPT !.r.pc = "ko_dacc"]

\* service/user.py 23-25: the super administrator is never deleted
SuperAdmin == 1

user_delete(w) ==
    IF w.r.target = SuperAdmin THEN Raise(w, "Forbidden")
    ELSE [w EXCEPT !.r.pc = "du_get"]

\* jwt_auth.py 70-87: the request is authenticated and request.user is set;
\* a protected request is served, the others enter their handler
authenticated(w) ==
    LET u == [w EXCEPT !.r.authed = TRUE] IN
    CASE w.r.op = "logout" -> logout(u)
      [] w.r.op = "kick" -> kick_out(u)
      [] w.r.op = "list" -> [u EXCEPT !.r.pc = "lt_keys"]
      [] w.r.op = "delete" -> user_delete(u)
      [] OTHER -> [u EXCEPT !.r = Finished(u.r)]

\* jwt.py 240-242
auth_get_token(w) ==
    IF get(w.st, AccessKey(w.r.uid, w.r.oldsid)) = Absent
    THEN Raise(w, "TokenExpired")
    ELSE [w EXCEPT !.r.pc = "au_cache"]

\* jwt.py 245-246 and 258-262
auth_get_cache(w) ==
    LET cache_user == get(w.st, UserKey(w.r.uid))
    IN IF cache_user = Absent
       THEN [w EXCEPT !.r.pc = "au_db"]
       ELSE authenticated([w EXCEPT !.r.multi = (cache_user[2] = 1),
                                    !.r.admin = (cache_user[3] = 1)])

\* jwt.py 248-251 and get_current_user, 217-225
auth_get_user(w) ==
    LET u == w.r.uid IN
    IF u \notin DOMAIN db \/ ~db[u].exists THEN Raise(w, "TokenInvalid")
    ELSE IF ~db[u].status THEN Raise(w, "Unauthorized")
    ELSE [w EXCEPT !.r.multi = db[u].multi, !.r.admin = db[u].admin,
                   !.r.pc = "au_setc"]

\* jwt.py 253-257
auth_set_cache(w) ==
    authenticated(
        [w EXCEPT !.st = setex(w.st, UserKey(w.r.uid), JWT_USER_REDIS_EXPIRE_SECONDS,
                               CacheUser(w.r.uid), now)])

\* ------------------------------------------------ AuthService.logout
\* a logout that leaves the session's access-token key where it is
logout_keep_access(w) ==
    IF w.r.rtok # NoCookie
    THEN [w EXCEPT !.r.pc = "lo_dref"]
    ELSE [w EXCEPT !.r = Finished(w.r)]

\* auth.py 196-198
logout_delete_access(w) ==
    LET st == delete(w.st, {AccessKey(w.r.uid, w.r.oldsid)})
    IN IF w.r.rtok # NoCookie
       THEN [w EXCEPT !.st = st, !.r.pc = "lo_dref"]
       ELSE [w EXCEPT !.st = st, !.r = Finished(w.r)]

\* auth.py 199-202
logout_delete_refresh(w) ==
    [w EXCEPT !.st = delete(w.st, {RefreshKey(w.r.uid, w.r.rtok)}),
              !.r = Finished(w.r)]

\* the two prefixes without their closing colon
LogoutPrefixesOpen(user_id) ==
    <<Prefix(TOKEN_REDIS_PREFIX, user_id, FALSE),
      Prefix(TOKEN_REFRESH_REDIS_PREFIX, user_id, FALSE)>>

\* auth.py 204-207: the two prefixes of the user
LogoutPrefixes(user_id) ==
    <<Prefix(TOKEN_REDIS_PREFIX, user_id, TRUE),
      Prefix(TOKEN_REFRESH_REDIS_PREFIX, user_id, TRUE)>>

\* auth.py 208-209, first prefix: scan, then delete
logout_scan_access(w) ==
    LET keys == scan_iter(w.st, LogoutPrefixes(w.r.uid)[1])
    IN [w EXCEPT !.r.keys = keys, !.r.pc = IF keys # {} THEN "lo_adel" ELSE "lo_rscan"]

logout_delete_access_keys(w) ==
    [w EXCEPT !.st = delete(w.st, w.r.keys), !.r.pc = "lo_rscan"]

\* auth.py 208-209, second prefix: scan, then delete
logout_scan_refresh(w) ==
    LET keys == scan_iter(w.st, LogoutPrefixes(w.r.uid)[2])
    IN IF keys # {}
       THEN [w EXCEPT !.r.keys = keys, !.r.pc = "lo_rdel"]
       ELSE [w EXCEPT !.r = Finished(w.r)]

logout_delete_refresh_keys(w) ==
    [w EXCEPT !.st = delete(w.st, w.r.keys), !.r = Finished(w.r)]

\* ------------------------------------------- TokenService.kick_out
\* the kick-out of every session of the user
kick_out_delete_sessions(w) ==
    [w EXCEPT !.st = delete(w.st, scan_iter(w.st, Prefix(TOKEN_REDIS_PREFIX, w.r.target, TRUE))),
              !.r.pc = "ko_dext"]

\* token.py 78-80
kick_out_delete_access(w) ==
    [w EXCEPT !.st = delete(w.st, {AccessKey(w.r.target, w.r.tsid)}),
              !.r.pc = "ko_dext"]

\* token.py 81-83: the extra-info key as kick_out spells it, user id included
KickOutExtraKey(user_id, session_uuid) ==
    Key(TOKEN_EXTRA_INFO_REDIS_PREFIX, <<Digits(user_id), <<session_uuid>>>>)

kick_out_delete_extra(w) ==
    [w EXCEPT !.st = delete(w.st, {KickOutExtraKey(w.r.target, w.r.tsid)}),
              !.r = Finished(w.r)]

\* ------------------------------------------------ UserService.delete
\* service/user.py 26-29: the lookup, and the DELETE statement inside the
\* transaction, which other sessions do not see before the commit
user_delete_get(w) ==
    LET u == w.r.target IN
    IF u \notin DOMAIN db \/ ~db[u].exists THEN Raise(w, "NotFound")
    ELSE [w EXCEPT !.r.pc = "du_ascan"]

\* service/user.py 30-33: the two prefixes of the deleted user
DeletePrefixes(user_id) ==
    <<Prefix(TOKEN_REDIS_PREFIX, user_id, FALSE),
      Prefix(TOKEN_REFRESH_REDIS_PREFIX, user_id, FALSE)>>

\* service/user.py 34-35, first prefix: scan, then delete
user_delete_scan_access(w) ==
    LET keys == scan_iter(w.st, DeletePrefixes(w.r.target)[1])
    IN [w EXCEPT !.r.keys = keys, !.r.pc = IF keys # {} THEN "du_adel" ELSE "du_rscan"]

user_delete_access_keys(w) ==
    [w EXCEPT !.st = delete(w.st, w.r.keys), !.r.pc = "du_rscan"]

\* service/user.py 34-35, second prefix: scan, then delete
user_delete_scan_refresh(w) ==
    LET keys == scan_iter(w.st, DeletePrefixes(w.r.target)[2])
    IN [w EXCEPT !.r.keys = keys, !.r.pc = IF keys # {} THEN "du_rdel" ELSE "du_commit"]

user_delete_refresh_keys(w) ==
    [w EXCEPT !.st = delete(w.st, w.r.keys), !.r.pc = "du_commit"]

\* service/user.py 23, 36: the transaction commits as the block is left
user_delete_commit(w) == [w EXCEPT !.r = Finished(w.r)]

\* ------------------------------------- TokenService.get_token_list
\* token.py 18: keys("fs:token:*")
TokenKeys(st) == {k \in Keys(st) : k.ns = TOKEN_REDIS_PREFIX}

\* token.py 28-43: the entry built from the token's payload
TokenDetail(payload) == <<payload.id, payload.session_uuid>>

\* token.py 66-71: whether the entry of a key is appended to data
Appended(extra_info, username) ==
    IF extra_info # Absent
    THEN extra_info[2] # SwaggerMarker
         /\ (username = NoUsername \/ username = extra_info[1])
    ELSE TRUE

\* token.py 18-73: the loop over the keys returns data at the end of its
\* first round (line 73); without a key the function ends without a return.
\* The key the loop meets first is the request's input first.
get_token_list(w) ==
    LET token_keys == TokenKeys(w.st)
        key == IF w.r.first \in token_keys THEN w.r.first
               ELSE CHOOSE k \in token_keys : TRUE
        payload == jwt_decode(get(w.st, key), now)
        extra_info == get(w.st, ExtraKey(payload.session_uuid))
    IN IF token_keys = {} THEN [w EXCEPT !.r = Finished([w.r EXCEPT !.data = NoData])]
       ELSE IF payload.err # "" THEN Raise(w, payload.err)
       ELSE [w EXCEPT !.r = Finished([w.r EXCEPT !.data =
                [none |-> FALSE,
                 items |-> IF Appended(extra_info, w.r.filter)
                           THEN <<TokenDetail(payload)>> ELSE <<>>]])]

\* ------------------------------------------------------- execution
\* the step of the request at its position
Exec(w) ==
    CASE w.r.pc = "verify" -> user_verify(w)
      [] w.r.pc = "a_scan" -> create_access_scan(w)
      [] w.r.pc = "a_del" -> create_access_delete(w)
      [] w.r.pc = "a_set" -> create_access_setex(w)
      [] w.r.pc = "x_set" -> create_access_extra(w)
      [] w.r.pc = "r_scan" -> create_refresh_scan(w)
      [] w.r.pc = "r_del" -> create_refresh_delete(w)
      [] w.r.pc = "r_set" -> create_refresh_setex(w)
      [] w.r.pc = "rf_db" -> refresh_get_user(w)
      [] w.r.pc = "rf_get" -> create_new_token(w)
      [] w.r.pc = "d_acc" -> delete_old_access(w)
      [] w.r.pc = "d_ref" -> delete_old_refresh(w)
      [] w.r.pc = "au_get" -> auth_get_token(w)
      [] w.r.pc = "au_cache" -> auth_get_cache(w)
      [] w.r.pc = "au_db" -> auth_get_user(w)
      [] w.r.pc = "au_setc" -> auth_set_cache(w)
      [] w.r.pc = "lo_dacc" -> logout_delete_access(w)
      [] w.r.pc = "lo_dref" -> logout_delete_refresh(w)
      [] w.r.pc = "lo_ascan" -> logout_scan_access(w)
      [] w.r.pc = "lo_adel" -> logout_delete_access_keys(w)
      [] w.r.pc = "lo_rscan" -> logout_scan_refresh(w)
      [] w.r.pc = "lo_rdel" -> logout_delete_refresh_keys(w)
      [] w.r.pc = "ko_dacc" -> kick_out_delete_access(w)
      [] w.r.pc = "ko_dext" -> kick_out_delete_extra(w)
      [] w.r.pc = "lt_keys" -> get_token_list(w)
      [] w.r.pc = "du_get" -> user_delete_get(w)
      [] w.r.pc = "du_ascan" -> user_delete_scan_access(w)
      [] w.r.pc = "du_adel" -> user_delete_access_keys(w)
      [] w.r.pc = "du_rscan" -> user_delete_scan_refresh(w)
      [] w.r.pc = "du_rdel" -> user_delete_refresh_keys(w)
      [] w.r.pc = "du_commit" -> user_delete_commit(w)
      [] OTHER -> w

RECURSIVE Run(_)
\* the handler from its position to its end
Run(w) == IF w.r.pc \in {"idle", "done"} THEN w ELSE Run(Exec(w))

\* --------------------------------------------------------- actions
Active(p) == req[p].pc \notin {"idle", "done"}

\* a request may arrive in slot p while fewer than cap requests run
CanStart(p, cap) ==
    /\ p <= cap
    /\ req[p].pc = "idle"
    /\ \A q \in Slots : q < p => Active(q)

\* what a request hands to the client once the pair is stored
Returned(r) == [op |-> r.op, uid |-> r.uid, sid |-> r.sid, at |-> r.at, rt |-> r.rt]

Succeeded(r, ops) == r.pc = "done" /\ r.err = "" /\ r.op \in ops

\* the world after a step (or after a whole handler) becomes the state
Commit(p, w) ==
    /\ store' = w.st
    /\ nextSid' = w.n
    /\ req' = [req EXCEPT ![p] = w.r]
    /\ issued' = IF Succeeded(w.r, {"login", "refresh", "swagger"})
                 THEN issued \cup {Returned(w.r)} ELSE issued
    /\ rotated' = IF Succeeded(w.r, {"refresh"})
                  THEN rotated \cup {w.r.rtok} ELSE rotated
    /\ loggedOut' = IF Succeeded(w.r, {"logout"})
                    THEN loggedOut \cup {w.r.tok} ELSE loggedOut

\* the request is served from arrival to response
Serve(p, r) ==
    /\ Commit(p, Run(World(r, store, nextSid)))
    /\ UNCHANGED <<now, ticks, db>>

\* the request arrives and runs up to its first await
Arrive(p, r) ==
    /\ Commit(p, World(r, store, nextSid))
    /\ UNCHANGED <<now, ticks, db>>

\* the running request takes its next step
StepAt(p, pc) ==
    /\ req[p].pc = pc
    /\ Commit(p, Exec(World(req[p], store, nextSid)))
    /\ UNCHANGED <<now, ticks, db>>

\* the response is delivered and the slot is free again
Respond(p) ==
    /\ req[p].pc = "done"
    /\ req' = [req EXCEPT ![p] = Idle]
    /\ UNCHANGED <<now, ticks, store, db, nextSid, issued, rotated, loggedOut>>

IssuedAccess == {i.at : i \in issued}
IssuedRefresh == {i.rt : i \in issued} \ {NoCookie}

\* the requests a client can send
LoginRequests ==
    {[Idle EXCEPT !.op = "login", !.pc = "verify", !.uid = u, !.pwok = pwok] :
        u \in DOMAIN db \cup {0}, pwok \in BOOLEAN}

RefreshRequests ==
    {refresh_new_token([Idle EXCEPT !.op = "refresh", !.tok = tok, !.rtok = rtok]) :
        tok \in IssuedAccess \cup {Garbage}, rtok \in IssuedRefresh \cup {NoCookie, Garbage}}

AuthRequests ==
    {jwt_authentication([Idle EXCEPT !.op = "auth", !.tok = tok]) :
        tok \in IssuedAccess \cup IssuedRefresh \cup {Garbage}}

LogoutRequests ==
    {jwt_authentication([Idle EXCEPT !.op = "logout", !.tok = tok, !.rtok = rtok]) :
        tok \in IssuedAccess \cup {Garbage}, rtok \in IssuedRefresh \cup {NoCookie}}

\* AuthService.user_login, auth.py 74-134, while session ids are left
ServeLogin(p, sessions) ==
    /\ CanStart(p, 1)
    /\ nextSid < sessions
    /\ \E r \in LoginRequests : Serve(p, r)

UserLogin(p) == ServeLogin(p, MaxSessions)

\* AuthService.refresh_new_token, auth.py 136-185, while session ids are left
ServeRefresh(p, sessions) ==
    /\ CanStart(p, 1)
    /\ nextSid < sessions
    /\ \E r \in RefreshRequests : Serve(p, r)

RefreshNewToken(p) == ServeRefresh(p, MaxSessions)

\* a protected request: JwtAuthMiddleware.authenticate, jwt_auth.py 50-87
JwtAuthentication(p) ==
    /\ CanStart(p, 1)
    /\ \E r \in AuthRequests : Serve(p, r)

\* AuthService.logout behind the middleware, auth.py 187-209
Logout(p) ==
    /\ CanStart(p, 1)
    /\ \E r \in LogoutRequests : Serve(p, r)

\* swagger_login takes a username and a password
SwaggerRequests ==
    {[Idle EXCEPT !.op = "swagger", !.pc = "verify", !.uid = u, !.pwok = pwok] :
        u \in DOMAIN db \cup {0}, pwok \in BOOLEAN}

\* api/sys/token.py: the caller's token, the user id of the path and the
\* session id of the body
KickOutRequests ==
    {jwt_authentication([Idle EXCEPT !.op = "kick", !.tok = tok,
                                     !.target = u, !.tsid = s]) :
        tok \in IssuedAccess, u \in DOMAIN db, s \in 1..nextSid}

\* the caller's token, the username filter, and the key KEYS yields first
ListRequests ==
    {jwt_authentication([Idle EXCEPT !.op = "list", !.tok = tok,
                                     !.filter = username, !.first = k]) :
        tok \in IssuedAccess, username \in DOMAIN db \cup {NoUsername},
        k \in IF TokenKeys(store) = {} THEN {NoKey} ELSE TokenKeys(store)}

\* AuthService.swagger_login, auth.py 57-72, while session ids are left
SwaggerLoginServed(p) ==
    /\ CanStart(p, 1)
    /\ nextSid < MaxSessions
    /\ \E r \in SwaggerRequests : Serve(p, r)

\* TokenService.kick_out behind the middleware, token.py 75-84
KickOut(p) ==
    /\ CanStart(p, 1)
    /\ \E r \in KickOutRequests : Serve(p, r)

\* TokenService.get_token_list behind the middleware, token.py 16-73
GetTokenList(p) ==
    /\ CanStart(p, 1)
    /\ \E r \in ListRequests : Serve(p, r)

\* refreshes whose cookie holds a token of either kind
AnyTokenRefreshRequests ==
    {refresh_new_token([Idle EXCEPT !.op = "refresh", !.tok = tok, !.rtok = rtok]) :
        tok \in IssuedAccess, rtok \in IssuedAccess \cup IssuedRefresh}

RefreshAnyToken(p) ==
    /\ CanStart(p, 1)
    /\ nextSid < MaxSessions
    /\ \E r \in AnyTokenRefreshRequests : Serve(p, r)

\* api/sys/user.py 27-31: the caller's token and the id to delete
DeleteRequests ==
    {jwt_authentication([Idle EXCEPT !.op = "delete", !.tok = tok, !.target = u]) :
        tok \in IssuedAccess, u \in DOMAIN db}

\* the user table once request r is over: a completed delete has committed
DbAfter(r) ==
    IF Succeeded(r, {"delete"}) THEN [db EXCEPT ![r.target].exists = FALSE] ELSE db

\* UserService.delete behind the middleware, service/user.py 21-36
UserDelete(p) ==
    /\ CanStart(p, 1)
    /\ \E r \in DeleteRequests :
         LET w == Run(World(r, store, nextSid))
         IN Commit(p, w) /\ db' = DbAfter(w.r)
    /\ UNCHANGED <<now, ticks>>

\* the status column of a user is set to 0 (model/user.py 53), between requests
DisableUser ==
    /\ \A p \in Slots : req[p].pc = "idle"
    /\ \E u \in DOMAIN db :
         /\ db[u].exists /\ db[u].status
         /\ db' = [db EXCEPT ![u].status = FALSE]
    /\ UNCHANGED <<now, ticks, store, nextSid, req, issued, rotated, loggedOut>>

\* how far the clock advances at once: a second, or a validity window
Delays == {1, TOKEN_EXPIRE_SECONDS, TOKEN_REFRESH_EXPIRE_SECONDS}

\* time passes between requests, and the entries whose TTL ran out are gone
Elapse(delays) ==
    /\ ticks < MaxTicks
    /\ \A p \in Slots : req[p].pc = "idle"
    /\ \E d \in delays :
         /\ now' = now + d
         /\ store' = Live(store, now + d)
    /\ ticks' = ticks + 1
    /\ UNCHANGED <<db, nextSid, req, issued, rotated, loggedOut>>

Tick == Elapse(Delays)

\* the clock passes the end of a validity window by a second
Lapses == {TOKEN_EXPIRE_SECONDS + 1, TOKEN_REFRESH_EXPIRE_SECONDS + 1}

Lapse == Elapse(Lapses)

Init ==
    /\ now = 0
    /\ ticks = 0
    /\ store = {}
    /\ \E m \in BOOLEAN :
         db = [u \in Users |-> [exists |-> TRUE, status |-> TRUE, haspw |-> TRUE,
                                multi |-> ((u = 1) = m), admin |-> (u = 1)]]
    /\ nextSid = 0
    /\ req = [p \in Slots |-> Idle]
    /\ issued = {}
    /\ rotated = {}
    /\ loggedOut = {}

\* requests are served one at a time
Next ==
    \/ Tick
    \/ \E p \in Slots :
         \/ UserLogin(p) \/ RefreshNewToken(p) \/ JwtAuthentication(p) \/ Logout(p)
         \/ Respond(p)

Spec == Init /\ [][Next]_vars

\* logins and refreshes only, long enough for a login, a rotation, another
\* login and a second use of the rotated token
NextReplay ==
    \/ Tick
    \/ \E p \in Slots :
         \/ ServeLogin(p, MaxSessions + 2) \/ ServeRefresh(p, MaxSessions + 2)
         \/ Respond(p)

SpecReplay == Init /\ [][NextReplay]_vars

\* logins and refreshes, with tokens presented after their expiry
NextExpiry ==
    \/ Lapse
    \/ \E p \in Slots : UserLogin(p) \/ RefreshNewToken(p) \/ Respond(p)

SpecExpiry == Init /\ [][NextExpiry]_vars

\* tokens of one kind presented where the other kind is expected
NextKinds ==
    \/ Tick
    \/ \E p \in Slots :
         \/ UserLogin(p) \/ SwaggerLoginServed(p) \/ RefreshAnyToken(p)
         \/ JwtAuthentication(p) \/ Respond(p)

SpecKinds == Init /\ [][NextKinds]_vars

\* the user table changes under the sessions: accounts are deleted and
\* disabled while their tokens are used
NextUsers ==
    \/ DisableUser
    \/ \E p \in Slots :
         \/ UserLogin(p) \/ RefreshNewToken(p) \/ JwtAuthentication(p) \/ UserDelete(p)
         \/ Respond(p)

SpecUsers == Init /\ [][NextUsers]_vars

\* a user table without the super administrator, with two ids of which
\* one is the other with a digit appended
Members == {10, 100}

InitMembers ==
    /\ now = 0
    /\ ticks = 0
    /\ store = {}
    /\ \E m \in BOOLEAN :
         db = [u \in Members |-> [exists |-> TRUE, status |-> TRUE, haspw |-> TRUE,
                                  multi |-> ((u = 10) = m), admin |-> FALSE]]
    /\ nextSid = 0
    /\ req = [p \in Slots |-> Idle]
    /\ issued = {}
    /\ rotated = {}
    /\ loggedOut = {}

\* logins and account deletions
NextMembers ==
    \/ Tick
    \/ \E p \in Slots : UserLogin(p) \/ UserDelete(p) \/ Respond(p)

SpecMembers == InitMembers /\ [][NextMembers]_vars

\* the accounts the user table can hold next to an enabled administrator
\* with a password: disabled or not, with or without a password hash
\* (user.py 37-39: password is nullable), under either login policy
InitAccounts ==
    /\ now = 0
    /\ ticks = 0
    /\ store = {}
    /\ \E status \in BOOLEAN, haspw \in BOOLEAN, multi \in BOOLEAN :
         db = [u \in Users |->
                 IF u = 1
                 THEN [exists |-> TRUE, status |-> TRUE, haspw |-> TRUE,
                       multi |-> FALSE, admin |-> TRUE]
                 ELSE [exists |-> TRUE, status |-> status, haspw |-> haspw,
                       multi |-> multi, admin |-> FALSE]]
    /\ nextSid = 0
    /\ req = [p \in Slots |-> Idle]
    /\ issued = {}
    /\ rotated = {}
    /\ loggedOut = {}

\* logins of both kinds and the use of the tokens they hand out
NextAccounts ==
    \/ Tick
    \/ \E p \in Slots :
         \/ UserLogin(p) \/ SwaggerLoginServed(p) \/ JwtAuthentication(p)
         \/ Respond(p)

SpecAccounts == InitAccounts /\ [][NextAccounts]_vars

\* the session administration: logins and kick-outs
NextAdmin ==
    \/ Tick
    \/ \E p \in Slots : UserLogin(p) \/ KickOut(p) \/ Respond(p)

SpecAdmin == Init /\ [][NextAdmin]_vars

\* logins of both kinds and the listing of the sessions
NextListing ==
    \/ Tick
    \/ \E p \in Slots :
         \/ UserLogin(p) \/ SwaggerLoginServed(p) \/ GetTokenList(p)
         \/ Respond(p)

SpecListing == Init /\ [][NextListing]_vars

\* ------------------------------------------------ step by step
StartLogin(p, cap, sessions) ==
    /\ CanStart(p, cap)
    /\ nextSid + Cardinality({q \in Slots : Active(q)}) < sessions
    /\ \E r \in LoginRequests : Arrive(p, r)

StartRefresh(p, cap, sessions) ==
    /\ CanStart(p, cap)
    /\ nextSid + Cardinality({q \in Slots : Active(q)}) < sessions
    /\ \E r \in RefreshRequests : Arrive(p, r)

UserVerify(p) == StepAt(p, "verify")
CreateAccessScan(p) == StepAt(p, "a_scan")
CreateAccessDelete(p) == StepAt(p, "a_del")
CreateAccessSetex(p) == StepAt(p, "a_set")
CreateAccessExtra(p) == StepAt(p, "x_set")
CreateRefreshScan(p) == StepAt(p, "r_scan")
CreateRefreshDelete(p) == StepAt(p, "r_del")
CreateRefreshSetex(p) == StepAt(p, "r_set")
RefreshGetUser(p) == StepAt(p, "rf_db")
CreateNewToken(p) == StepAt(p, "rf_get")
DeleteOldAccess(p) == StepAt(p, "d_acc")
DeleteOldRefresh(p) == StepAt(p, "d_ref")

Step(p) ==
    \/ UserVerify(p)
    \/ CreateAccessScan(p) \/ CreateAccessDelete(p) \/ CreateAccessSetex(p)
    \/ CreateAccessExtra(p)
    \/ CreateRefreshScan(p) \/ CreateRefreshDelete(p) \/ CreateRefreshSetex(p)
    \/ RefreshGetUser(p) \/ CreateNewToken(p)
    \/ DeleteOldAccess(p) \/ DeleteOldRefresh(p)

\* one request at a time, one await per step
NextSteps ==
    \/ Tick
    \/ \E p \in Slots : StartLogin(p, 1, MaxSessions) \/ StartRefresh(p, 1, MaxSessions) \/ Step(p) \/ Respond(p)

SpecSteps == Init /\ [][NextSteps]_vars

\* two requests at a time, their awaits interleaved
NextConc ==
    \/ Tick
    \/ \E p \in Slots : StartLogin(p, 2, MaxSessions) \/ StartRefresh(p, 2, MaxSessions) \/ Step(p) \/ Respond(p)

SpecConc == Init /\ [][NextConc]_vars

\* logins one at a time, refreshes two at a time, long enough for a login
\* and two refreshes of its pair
NextTwin ==
    \/ Tick
    \/ \E p \in Slots :
         \/ StartLogin(p, 1, MaxSessions + 1) \/ StartRefresh(p, 2, MaxSessions + 1)
         \/ Step(p) \/ Respond(p)

SpecTwin == Init /\ [][NextTwin]_vars

\* ------------------------------- deletion next to running requests
\* a login is served while no other request runs: its UPDATE of the user
\* row and the DELETE of UserService.delete exclude each other in the
\* database
QuietLogin(p) ==
    /\ \A q \in Slots : req[q].pc = "idle"
    /\ UserLogin(p)

StartDelete(p, cap) ==
    /\ CanStart(p, cap)
    /\ \E r \in DeleteRequests : Arrive(p, r)

AuthGetToken(p) == StepAt(p, "au_get")
AuthGetCache(p) == StepAt(p, "au_cache")
AuthGetUser(p) == StepAt(p, "au_db")
AuthSetCache(p) == StepAt(p, "au_setc")
UserDeleteGet(p) == StepAt(p, "du_get")
UserDeleteScanAccess(p) == StepAt(p, "du_ascan")
UserDeleteAccessKeys(p) == StepAt(p, "du_adel")
UserDeleteScanRefresh(p) == StepAt(p, "du_rscan")
UserDeleteRefreshKeys(p) == StepAt(p, "du_rdel")

\* the transaction of the delete commits: the row is gone for everyone
UserDeleteCommit(p) ==
    /\ req[p].pc = "du_commit"
    /\ LET w == Exec(World(req[p], store, nextSid))
       IN Commit(p, w) /\ db' = DbAfter(w.r)
    /\ UNCHANGED <<now, ticks>>

RefreshStep(p) ==
    \/ RefreshGetUser(p) \/ CreateNewToken(p)
    \/ CreateAccessScan(p) \/ CreateAccessDelete(p) \/ CreateAccessSetex(p)
    \/ CreateAccessExtra(p)
    \/ CreateRefreshScan(p) \/ CreateRefreshDelete(p) \/ CreateRefreshSetex(p)
    \/ DeleteOldAccess(p) \/ DeleteOldRefresh(p)

DeleteStep(p) ==
    \/ AuthGetToken(p) \/ AuthGetCache(p) \/ AuthGetUser(p) \/ AuthSetCache(p)
    \/ UserDeleteGet(p)
    \/ UserDeleteScanAccess(p) \/ UserDeleteAccessKeys(p)
    \/ UserDeleteScanRefresh(p) \/ UserDeleteRefreshKeys(p)
    \/ UserDeleteCommit(p)

\* a refresh and an account deletion at a time, their awaits interleaved
NextDeleteConc ==
    \E p \in Slots :
        \/ QuietLogin(p)
        \/ StartRefresh(p, 2, MaxSessions) \/ RefreshStep(p)
        \/ StartDelete(p, 2) \/ DeleteStep(p)
        \/ Respond(p)

SpecDeleteConc == Init /\ [][NextDeleteConc]_vars

\* ------------------------------------------------------------ claims
\* the request in slot p has been served
Done(p) == req[p].pc = "done"

\* the pairs the user's password logins returned before request r's pair
EarlierLogins(r) ==
    {i \in issued : i.op = "login" /\ i.uid = r.uid /\ i.sid < r.sid}

\* C1: when a password login of a user with multi-login disabled has
\* completed, neither the access-token key nor the refresh-token key written
\* by an earlier completed login of that user is in the store, whatever the
\* clock showed at the two logins.
C1_SecondLoginEvictsFirst ==
    \A p \in Slots :
        (Succeeded(req[p], {"login"}) /\ ~req[p].multi) =>
            \A i \in EarlierLogins(req[p]) :
                /\ AccessKey(i.uid, i.sid) \notin Keys(store)
                /\ RefreshKey(i.uid, i.rt) \notin Keys(store)

\* the keys of store st in namespace ns whose user-id component is user_id
KeysIn(st, ns, user_id) ==
    {k \in Keys(st) : k.ns = ns /\ k.segs[1] = Digits(user_id)}

KeysOf(ns, user_id) == KeysIn(store, ns, user_id)

LogoutServed(p) == req[p].pc = "idle" /\ Succeeded(req'[p], {"logout"})

\* the pairs returned to the user of request r for a session other than
\* the one r presents
OtherSessions(r) == {i \in issued : i.uid = r.uid /\ i.at # r.tok}

\* C3: a logout of one session of a user with multi-login enabled leaves
\* the access-token key and the refresh-token key of every other session of
\* that user in the store, whatever the clock showed at the logins that
\* created the sessions.
C3_LogoutSparesOtherSessions ==
    [][\A p \in Slots :
          (LogoutServed(p) /\ req'[p].multi) =>
              \A i \in OtherSessions(req'[p]) :
                  /\ AccessKey(i.uid, i.sid) \in Keys(store)
                        => AccessKey(i.uid, i.sid) \in Keys(store')
                  /\ RefreshKey(i.uid, i.rt) \in Keys(store)
                        => RefreshKey(i.uid, i.rt) \in Keys(store')]_vars

\* errors.TokenError with its two messages
TokenError == {"TokenExpired", "TokenInvalid"}

\* the step serves, in slot p, a refresh from arrival to response
RefreshServed(p) ==
    req[p].pc = "idle" /\ req'[p].pc = "done" /\ req'[p].op = "refresh"

\* C4: once a refresh presenting refresh token R has succeeded, every later
\* refresh presenting R fails with a token error, under both login policies.
C4_RefreshNotReplayable ==
    [][\A p \in Slots :
          (RefreshServed(p) /\ req'[p].rtok \in rotated) =>
              req'[p].err \in TokenError]_vars

\* the positions of a refresh between its validation and its response
Rotating ==
    {"a_scan", "a_del", "a_set", "x_set", "r_scan", "r_del", "r_set", "d_acc", "d_ref"}

\* the step is a cache call of the validated refresh in slot p
RotationStep(p) ==
    req[p].op = "refresh" /\ req[p].pc \in Rotating /\ req'[p] # req[p]

\* C5: under both login policies no cache call of a validated refresh takes
\* the user's last access-token key or last refresh-token key out of the
\* store: the new keys are written before the previous ones are deleted, so
\* the user has at least one key of each kind at every intermediate step.
C5_RotationNeverEmpties ==
    [][\A p \in Slots :
          RotationStep(p) =>
              \A ns \in {TOKEN_REDIS_PREFIX, TOKEN_REFRESH_REDIS_PREFIX} :
                  KeysIn(store, ns, req[p].uid) # {}
                      => KeysIn(store', ns, req[p].uid) # {}]_vars

\* C6: when a refresh served on its own has returned a pair, the store holds
\* the access-token key of the returned session id with the returned access
\* token as its value, and the refresh-token key of the returned refresh
\* token, whatever the clock showed when the presented token was minted.
C6_ReturnedPairStored ==
    \A p \in Slots :
        Succeeded(req[p], {"refresh"}) =>
            /\ get(store, AccessKey(req[p].uid, req[p].sid)) = req[p].at
            /\ RefreshKey(req[p].uid, req[p].rt) \in Keys(store)

\* two refreshes presenting the same pair have run side by side (the second
\* slot is taken only while the first is running), both are over, and at
\* least one of them returned a pair
TwinRefreshesDone ==
    /\ \A p \in Slots : Done(p) /\ req[p].op = "refresh"
    /\ req[1].tok = req[2].tok
    /\ req[1].rtok = req[2].rtok
    /\ \E p \in Slots : req[p].err = ""

\* C7: after two concurrent refreshes presenting the same access token and
\* the same refresh token have both finished, the store holds at least one
\* access-token key and at least one refresh-token key of the user, under
\* both login policies.
C7_TwinRefreshKeepsKeys ==
    TwinRefreshesDone =>
        \A p \in Slots :
            req[p].err = "" =>
                /\ KeysOf(TOKEN_REDIS_PREFIX, req[p].uid) # {}
                /\ KeysOf(TOKEN_REFRESH_REDIS_PREFIX, req[p].uid) # {}

\* C8: under both login policies, an authentication that presents an access
\* token with which a logout has completed is rejected with a token error
\* (no key is ever written again for the token's user id and session id:
\* every session id is a fresh uuid4).
C8_LoggedOutTokenRejected ==
    \A p \in Slots :
        (Done(p) /\ req[p].op = "auth" /\ req[p].tok \in loggedOut) =>
            req[p].err \in TokenError

\* an authentication with a logged-out token is rejected before the token
\* expires and while another session of its user still has its key
C8_Witness ==
    \E p \in Slots :
        /\ Done(p) /\ req[p].op = "auth" /\ req[p].tok \in loggedOut
        /\ req[p].err = "TokenExpired"
        /\ req[p].tok[3] > now
        /\ KeysOf(TOKEN_REDIS_PREFIX, req[p].tok[1]) # {}

\* C9: a logout whose access token cannot be decoded (expired, malformed or
\* wrongly signed) still ends without error and with the refresh-token
\* cookie cleared.
C9_LogoutToleratesBadToken ==
    \A p \in Slots :
        (Done(p) /\ req[p].op = "logout" /\ jwt_decode(req[p].tok, now).err # "") =>
            /\ req[p].err = ""
            /\ req[p].cookie = "cleared"

\* the entries of store st in namespace ns that belong to user_id
EntriesIn(st, ns, user_id) ==
    {e \in st : e.key.ns = ns /\ e.key.segs[1] = Digits(user_id)}

TokenNamespaces == {TOKEN_REDIS_PREFIX, TOKEN_REFRESH_REDIS_PREFIX}

\* C10: when a logout of a user U with multi-login disabled has completed,
\* the store holds no access-token key and no refresh-token key of U, and
\* the access-token and refresh-token entries of every other user are what
\* they were before the logout.
C10_SingleLogoutClearsOnlyUser ==
    [][\A p \in Slots :
          (LogoutServed(p) /\ ~req'[p].multi) =>
              \A ns \in TokenNamespaces :
                  /\ KeysIn(store', ns, req'[p].uid) = {}
                  /\ \A u \in Users \ {req'[p].uid} :
                        EntriesIn(store', ns, u) = EntriesIn(store, ns, u)]_vars

\* user 1, with multi-login disabled, has logged out while user 10, whose
\* id starts with the same digit, has an access-token key and a
\* refresh-token key in the store
C10_Witness ==
    \E p \in Slots :
        /\ Succeeded(req[p], {"logout"}) /\ ~req[p].multi
        /\ req[p].uid = 1
        /\ req[p].rtok # NoCookie
        /\ \A ns \in TokenNamespaces : KeysOf(ns, 10) # {}

\* the session ids handed to user_id by a login of either kind or a refresh
SessionsOf(user_id) == {i.sid : i \in {j \in issued : j.uid = user_id}}

\* C11: after kick_out, called by an administrator for session S of user U,
\* has completed, the store holds neither the access-token key of (U, S) nor
\* the extra-info entry that create_access_token wrote for S.
C11_KickOutRemovesSession ==
    \A p \in Slots :
        (Succeeded(req[p], {"kick"}) /\ req[p].tsid \in SessionsOf(req[p].target)) =>
            /\ AccessKey(req[p].target, req[p].tsid) \notin Keys(store)
            /\ ExtraKey(req[p].tsid) \notin Keys(store)

\* the Session Store: the access-token, refresh-token and extra-info entries
SessionNamespaces ==
    {TOKEN_REDIS_PREFIX, TOKEN_REFRESH_REDIS_PREFIX, TOKEN_EXTRA_INFO_REDIS_PREFIX}

SessionStore(st) == {e \in st : e.key.ns \in SessionNamespaces}

\* the step serves, in slot p, a kick_out from arrival to response
KickOutServed(p) ==
    req[p].pc = "idle" /\ req'[p].pc = "done" /\ req'[p].op = "kick"

\* C12: a kick_out whose authenticated caller is not an administrator fails
\* with the authorization error and leaves the Session Store as it was: the
\* privilege check comes before any delete.
C12_KickOutNeedsAdmin ==
    [][\A p \in Slots :
          (KickOutServed(p) /\ req'[p].authed /\ ~req'[p].admin) =>
              /\ req'[p].err = "Unauthorized"
              /\ SessionStore(store') = SessionStore(store)]_vars

\* user 10, no administrator, has asked to kick out a session of user 1 and
\* was refused, and the session's two entries are still in the store
C12_Witness ==
    \E p \in Slots :
        /\ Done(p) /\ req[p].op = "kick" /\ req[p].authed /\ ~req[p].admin
        /\ req[p].err = "Unauthorized"
        /\ req[p].target # req[p].uid
        /\ AccessKey(req[p].target, req[p].tsid) \in Keys(store)
        /\ ExtraKey(req[p].tsid) \in Keys(store)

\* the step serves, in slot p, a password login from arrival to response
LoginServed(p) ==
    req[p].pc = "idle" /\ req'[p].pc = "done" /\ req'[p].op = "login"

\* the step ends the request in slot p with error e, with the store as it
\* was, without a token and without a cookie
Refused(p, e) ==
    /\ req'[p].err = e
    /\ store' = store
    /\ req'[p].at = NoCookie /\ req'[p].rt = NoCookie /\ req'[p].cookie = "keep"

\* C13: a password login fails with the not-found error when no user has
\* the phone, with the forbidden error when the user is disabled, and with
\* the forbidden error when the password does not match the user's stored
\* hash (pwok is false); in each case no key is written or deleted and no
\* token is returned.
C13_FailedLoginTouchesNothing ==
    [][\A p \in Slots :
          LoginServed(p) =>
              LET u == req'[p].uid IN
              /\ u \notin Users => Refused(p, "NotFound")
              /\ (u \in Users /\ ~db[u].status) => Refused(p, "Forbidden")
              /\ (u \in Users /\ db[u].status /\ ~req'[p].pwok)
                    => Refused(p, "Forbidden")]_vars

\* C14: a login, by user_login or by swagger_login, hands out tokens only
\* when the password was verified against the user's stored hash: a user
\* without a stored hash cannot log in, whatever password is presented.
C14_TokensOnlyAfterVerification ==
    \A p \in Slots :
        Succeeded(req[p], {"login", "swagger"}) =>
            db[req[p].uid].haspw /\ req[p].pwok

\* the error a password login of phone u would end with in this state
LoginOutcome(u, pwok) ==
    Run(World([Idle EXCEPT !.op = "login", !.pc = "verify", !.uid = u, !.pwok = pwok],
              store, nextSid)).r.err

\* C15: a failed login does not tell whether the account exists: the error
\* a login with an unknown phone has ended with is the error a login with a
\* known phone (of an enabled user with a stored hash) and a wrong password
\* ends with.
C15_FailedLoginHidesExistence ==
    \A p \in Slots :
        (Done(p) /\ req[p].op = "login" /\ req[p].uid \notin Users) =>
            \A u \in Users :
                (db[u].status /\ db[u].haspw) => LoginOutcome(u, FALSE) = req[p].err

\* the error an authentication presenting token would end with in this state
AuthOutcome(token) ==
    Run(World(jwt_authentication([Idle EXCEPT !.op = "auth", !.tok = token]),
              store, nextSid)).r.err

\* C16: when a user_login of user U has returned access token A, session id
\* S and refresh token R, the store maps the access-token key of (U, S) to A
\* and the extra-info key of S to the session metadata, both with the access
\* time to live, and the refresh-token key of (U, R) to R with the refresh
\* time to live; and an authentication presenting A is accepted.
C16_LoginStoresSession ==
    \A p \in Slots :
        Succeeded(req[p], {"login"}) =>
            LET r == req[p] IN
            /\ [key |-> AccessKey(r.uid, r.sid), val |-> r.at,
                exp |-> now + TOKEN_EXPIRE_SECONDS] \in store
            /\ [key |-> ExtraKey(r.sid), val |-> ExtraInfo(r.uid, NoLoginType),
                exp |-> now + TOKEN_EXPIRE_SECONDS] \in store
            /\ [key |-> RefreshKey(r.uid, r.rt), val |-> r.rt,
                exp |-> now + TOKEN_REFRESH_EXPIRE_SECONDS] \in store
            /\ AuthOutcome(r.at) = ""

\* a second login of a user, later than the first, has returned its pair
C16_Witness ==
    \E p \in Slots :
        /\ Succeeded(req[p], {"login"})
        /\ now > 0
        /\ EarlierLogins(req[p]) # {}
        /\ get(store, AccessKey(req[p].uid, req[p].sid)) = req[p].at
        /\ get(store, RefreshKey(req[p].uid, req[p].rt)) = req[p].rt
        /\ get(store, ExtraKey(req[p].sid)) = ExtraInfo(req[p].uid, NoLoginType)

\* the access-token keys of st whose session is neither marked as a tooling
\* session nor filtered out by username
Listable(st, username) ==
    {k \in TokenKeys(st) :
        Appended(get(st, ExtraKey(jwt_decode(get(st, k), now).session_uuid)), username)}

\* C17: get_token_list returns a list with exactly one entry for every
\* access-token key in the store, except the keys of tooling-marked sessions
\* and those the username filter leaves out: k listable keys give k entries.
C17_ListHasEveryKey ==
    \A p \in Slots :
        Succeeded(req[p], {"list"}) =>
            /\ ~req[p].data.none
            /\ Len(req[p].data.items) = Cardinality(Listable(store, req[p].filter))

\* the session ids swagger_login has handed out
SwaggerSessions == {i.sid : i \in {j \in issued : j.op = "swagger"}}

\* C18: a session created by swagger_login never shows in the result of
\* get_token_list: the login_type written at the login is the one the
\* listing leaves out.
C18_SwaggerSessionsHidden ==
    \A p \in Slots :
        Succeeded(req[p], {"list"}) =>
            \A i \in 1..Len(req[p].data.items) :
                req[p].data.items[i][2] \notin SwaggerSessions

\* a token that carries a user id: three claims and a subject
WellFormed(token) == Len(token) = 3 /\ token[1] # 0

\* the store holds refresh token R under the user id R carries, as its own value
StoreValid(st, refresh_token) ==
    get(st, RefreshKey(refresh_token[1], refresh_token)) = refresh_token

\* C19: a refresh whose refresh token has no entry in the store under the
\* token's user id (never issued, revoked, already rotated, or expired with
\* its time to live), or whose entry holds another value, fails with the
\* token-expired error and leaves the Session Store as it was.
C19_UnknownRefreshTokenExpired ==
    [][\A p \in Slots :
          (RefreshServed(p) /\ WellFormed(req'[p].rtok)
                            /\ ~StoreValid(store, req'[p].rtok)) =>
              /\ req'[p].err = "TokenExpired"
              /\ SessionStore(store') = SessionStore(store)]_vars

\* C20: a refresh presenting a refresh token that is valid in the store and
\* an access token that is well formed and correctly signed but past its
\* expiry succeeds and takes the access-token key of that token's session id
\* out of the store; a refresh presenting a valid refresh token and a
\* malformed or wrongly signed access token fails with the invalid-token
\* error.
C20_ExpiredAccessTokenRefreshes ==
    [][\A p \in Slots :
          (RefreshServed(p) /\ WellFormed(req'[p].rtok)
                            /\ StoreValid(store, req'[p].rtok)) =>
              LET token == req'[p].tok IN
              /\ (WellFormed(token) /\ token[3] < now) =>
                    /\ req'[p].err = ""
                    /\ AccessKey(token[1], token[2]) \notin Keys(store')
              /\ ~WellFormed(token) => req'[p].err = "TokenInvalid"]_vars

\* the refresh token decodes at the clock's time: it carries a user id and
\* has not expired
Decodes(token) == WellFormed(token) /\ token[3] >= now

TokenCreated(p) ==
    req[p].pc = "idle" /\ Succeeded(req'[p], {"login", "swagger", "refresh"})

\* C22: the eviction done when a token is created for a user U with
\* multi-login disabled deletes keys of U only: the access-token and
\* refresh-token entries of every other user V are what they were, also
\* when the decimal id of V starts with the decimal id of U (U = 1, V = 10).
C22_EvictionSparesOtherUsers ==
    [][\A p \in Slots :
          (TokenCreated(p) /\ ~req'[p].multi) =>
              \A v \in DOMAIN db \ {req'[p].uid} :
                  \A ns \in TokenNamespaces :
                      EntriesIn(store', ns, v) = EntriesIn(store, ns, v)]_vars

\* the step serves, in slot p, an account deletion that ends without error
DeleteServed(p) == req[p].pc = "idle" /\ Succeeded(req'[p], {"delete"})

\* C23: deleting the account of user U takes every access-token key and
\* every refresh-token key of U out of the store and leaves the access-token
\* and refresh-token entries of every other user as they were, whatever the
\* two user ids are.
C23_DeleteClearsOnlyUser ==
    [][\A p \in Slots :
          DeleteServed(p) =>
              \A ns \in TokenNamespaces :
                  /\ KeysIn(store', ns, req'[p].target) = {}
                  /\ \A v \in DOMAIN db \ {req'[p].target} :
                        EntriesIn(store', ns, v) = EntriesIn(store, ns, v)]_vars

\* C24: for a user with multi-login disabled, every operation that creates
\* a new access token (user_login, swagger_login, refresh) leaves in the
\* store no refresh-token key of the user that was there when the operation
\* started, other than the key the operation itself has written.
C24_NewTokenEvictsRefreshTokens ==
    [][\A p \in Slots :
          (TokenCreated(p) /\ ~req'[p].multi) =>
              \A k \in KeysIn(store, TOKEN_REFRESH_REDIS_PREFIX, req'[p].uid) :
                  k \in Keys(store') => k = RefreshKey(req'[p].uid, req'[p].rt)]_vars

\* C25: kick_out of session S of user U changes no entry of the Session
\* Store other than the access-token key of (U, S) and the extra-info entry
\* of S: the refresh-token keys of U, the access-token keys of the other
\* sessions of U and the keys of the other users are what they were.
C25_KickOutTouchesOneSession ==
    [][\A p \in Slots :
          (KickOutServed(p) /\ req'[p].err = "") =>
              LET named == {AccessKey(req'[p].target, req'[p].tsid),
                            ExtraKey(req'[p].tsid)}
              IN {e \in SessionStore(store') : e.key \notin named}
                     = {e \in SessionStore(store) : e.key \notin named}]_vars

\* a session of a user has been kicked out while another session of the
\* same user and the refresh tokens of the user are still in the store
C25_Witness ==
    \E p \in Slots :
        /\ Succeeded(req[p], {"kick"})
        /\ req[p].tsid \in SessionsOf(req[p].target)
        /\ AccessKey(req[p].target, req[p].tsid) \notin Keys(store)
        /\ KeysOf(TOKEN_REDIS_PREFIX, req[p].target) # {}
        /\ KeysOf(TOKEN_REFRESH_REDIS_PREFIX, req[p].target) # {}

\* the world after a refresh presenting access token A and refresh token R
\* in this state
RefreshWith(access_token, refresh_token) ==
    Run(World(refresh_new_token([Idle EXCEPT !.op = "refresh", !.tok = access_token,
                                             !.rtok = refresh_token]),
              store, nextSid))

\* an authentication presenting the access token that request w.r obtained
\* is accepted in the store w.st
Accepted(w) ==
    /\ w.r.err = ""
    /\ Run(World(jwt_authentication([Idle EXCEPT !.op = "auth", !.tok = w.r.at]),
                 w.st, w.n)).r.err = ""

IsAccessToken(token) == WellFormed(token) /\ token[2] # NoSession
IsRefreshToken(token) == WellFormed(token) /\ token[2] = NoSession

\* C27: the kinds of token are not interchangeable: an authentication that
\* presents a refresh token as the bearer token is rejected with a token
\* error (the token decodes to the debug session id, under which no
\* access-token key is ever written), and a refresh that presents an access
\* token as the refresh token fails with a token error.
C27_TokenKindsNotInterchangeable ==
    \A p \in Slots :
        /\ (Done(p) /\ req[p].op = "auth" /\ IsRefreshToken(req[p].tok))
              => req[p].err \in TokenError
        /\ (Done(p) /\ req[p].op = "refresh" /\ IsAccessToken(req[p].rtok))
              => req[p].err \in TokenError /\ req[p].at = NoCookie

\* a refresh presenting, as the refresh token, an access token that is still
\* valid in the store was refused at the store check
C27_Witness ==
    \E p \in Slots :
        /\ Done(p) /\ req[p].op = "refresh" /\ IsAccessToken(req[p].rtok)
        /\ get(store, AccessKey(req[p].rtok[1], req[p].rtok[2])) = req[p].rtok
        /\ req[p].err = "TokenExpired"

\* C28: a refresh succeeds only when the access token and the refresh token
\* it presents belong together: both carry the same subject, and the two
\* were issued together as one pair, so that the access-token key the
\* refresh retires is that of the session the refresh token was issued with.
C28_RefreshNeedsMatchingPair ==
    [][\A p \in Slots :
          (RefreshServed(p) /\ req'[p].err = "") =>
              /\ req'[p].tok[1] = req'[p].rtok[1]
              /\ \E i \in issued : i.at = req'[p].tok /\ i.rt = req'[p].rtok]_vars

\* C29: an authentication is rejected whenever the user of the token is
\* disabled at the time of the request, whether or not the store holds a
\* cached copy of the user record: no request of a disabled user is
\* authenticated.
C29_DisabledUserRejected ==
    \A p \in Slots :
        (Done(p) /\ req[p].op = "auth" /\ WellFormed(req[p].tok)
                 /\ ~db[req[p].tok[1]].status) =>
            req[p].err # ""

\* C30: once the deletion of user U has completed, the store holds no
\* access-token key and no refresh-token key of U and no access token issued
\* to U is accepted by authentication, also when a refresh for U was running
\* while U was deleted and when a cached record of U is still in the store.
C30_DeletedUserHasNoSession ==
    \A u \in DOMAIN db :
        ~db[u].exists =>
            /\ KeysOf(TOKEN_REDIS_PREFIX, u) = {}
            /\ KeysOf(TOKEN_REFRESH_REDIS_PREFIX, u) = {}
            /\ \A i \in issued : i.uid = u => AuthOutcome(i.at) # ""

====
